---------------------------- MODULE Spec2Model ----------------------------
(***************************************************************************)
(* Model of crates/wasm-detector/src/lib.rs: the lexical detector of       *)
(* wallet addresses, ENS names and transaction hashes.                      *)
(*                                                                         *)
(* A text is a sequence of bytes.  ASCII bytes are one-character strings;  *)
(* the three UTF-8 bytes of U+2026 (horizontal ellipsis) are "E2" "80"     *)
(* "A6".  Offsets are byte offsets counted from 0, as Match::start() and   *)
(* str::len() count them, so text[i + 1] is the byte at offset i.          *)
(***************************************************************************)
EXTENDS Integers, Sequences, FiniteSets, TLC

VARIABLES
    text,      \* the &str argument of find_matches / is_valid_ens
    pc,        \* position of the call inside find_matches
    matches,   \* the `matches` vector of find_matches
    hist,      \* what each scan of this call accepted, in the order the scans ran
    cells,     \* the fifteen OnceLock<Regex> statics
    callers,   \* threads calling find_matches for the first time
    hoCall,    \* a call of has_overlap: its arguments and its result
    ensCall    \* a call of is_valid_ens and of find_ens_names on `text`

vars == <<text, pc, matches, hist, cells, callers, hoCall, ensCall>>

---------------------------------------------------------------------------
(* Bytes and character classes *)

Digits == {"0", "1", "2", "3", "4", "5", "6", "7", "8", "9"}

Lower == {"a", "b", "c", "d", "e", "f", "g", "h", "i", "j", "k", "l", "m",
          "n", "o", "p", "q", "r", "s", "t", "u", "v", "w", "x", "y", "z"}

Upper == {"A", "B", "C", "D", "E", "F", "G", "H", "I", "J", "K", "L", "M",
          "N", "O", "P", "Q", "R", "S", "T", "U", "V", "W", "X", "Y", "Z"}

\* \w restricted to the bytes a text of the model can hold
WordBytes == Digits \cup Lower \cup Upper \cup {"_"}

\* [a-fA-F0-9]
HexClass == Digits \cup {"a", "b", "c", "d", "e", "f"} \cup {"A", "B", "C", "D", "E", "F"}

\* [a-km-zA-HJ-NP-Z1-9] and [1-9A-HJ-NP-Za-km-z]
Base58Class == (Digits \ {"0"}) \cup (Lower \ {"l"}) \cup (Upper \ {"I", "O"})

\* [a-zA-HJ-NP-Z0-9]
Bech32Class == Digits \cup Lower \cup (Upper \ {"I", "O"})

\* [13]
LegacyLead == {"1", "3"}

\* (?i)[a-z0-9], among the bytes a text of the model can hold
EnsEdge == Digits \cup Lower \cup Upper

\* (?i)[a-z0-9-]
EnsInner == EnsEdge \cup {"-"}

\* "…" as UTF-8
EllipsisBytes == <<"E2", "80", "A6">>

---------------------------------------------------------------------------
(* Regular expressions: a pattern is a sequence of elements *)

WB == [kind |-> "wb", set |-> {}, min |-> 0, max |-> 0, bytes |-> <<>>, subs |-> <<>>]

Cls(S, lo, hi) == [kind |-> "cls", set |-> S, min |-> lo, max |-> hi, bytes |-> <<>>, subs |-> <<>>]

Lit(bs) == [kind |-> "lit", set |-> {}, min |-> 0, max |-> 0, bytes |-> bs, subs |-> <<>>]

Alt(ps) == [kind |-> "alt", set |-> {}, min |-> 0, max |-> 0, bytes |-> <<>>, subs |-> ps]

Opt(p) == [kind |-> "opt", set |-> {}, min |-> 0, max |-> 0, bytes |-> <<>>, subs |-> <<p>>]

\* (?:\.{3}|…)
Ellipsis == Alt(<< <<Cls({"."}, 3, 3)>>, <<Lit(EllipsisBytes)>> >>)

\* \b0x[a-fA-F0-9]{40}\b
FULL_ADDRESS_RE == <<WB, Lit(<<"0", "x">>), Cls(HexClass, 40, 40), WB>>

\* \b0x[a-fA-F0-9]{4,12}(?:\.{3}|…)[a-fA-F0-9]{4,12}\b
TRUNCATED_RE ==
    <<WB, Lit(<<"0", "x">>), Cls(HexClass, 4, 12), Ellipsis, Cls(HexClass, 4, 12), WB>>

\* (?i)\b[a-z0-9](?:[a-z0-9-]{0,61}[a-z0-9])?\.eth\b
ENS_RE ==
    <<WB, Cls(EnsEdge, 1, 1), Opt(<<Cls(EnsInner, 0, 61), Cls(EnsEdge, 1, 1)>>),
      Lit(<<".">>), Cls({"e", "E"}, 1, 1), Cls({"t", "T"}, 1, 1), Cls({"h", "H"}, 1, 1), WB>>

\* \b[13][a-km-zA-HJ-NP-Z1-9]{25,34}\b
BTC_LEGACY_RE == <<WB, Cls(LegacyLead, 1, 1), Cls(Base58Class, 25, 34), WB>>

\* \bbc1[a-zA-HJ-NP-Z0-9]{39,59}\b
BTC_BECH32_RE == <<WB, Lit(<<"b", "c", "1">>), Cls(Bech32Class, 39, 59), WB>>

\* \b[13][a-km-zA-HJ-NP-Z1-9]{2,20}(?:\.{3}|…)[a-km-zA-HJ-NP-Z1-9]{2,20}\b
BTC_TRUNCATED_LEGACY_RE ==
    <<WB, Cls(LegacyLead, 1, 1), Cls(Base58Class, 2, 20), Ellipsis, Cls(Base58Class, 2, 20), WB>>

\* \bbc1[a-zA-HJ-NP-Z0-9]{2,40}(?:\.{3}|…)[a-zA-HJ-NP-Z0-9]{2,40}\b
BTC_TRUNCATED_BECH32_RE ==
    <<WB, Lit(<<"b", "c", "1">>), Cls(Bech32Class, 2, 40), Ellipsis, Cls(Bech32Class, 2, 40), WB>>

\* \b[1-9A-HJ-NP-Za-km-z]{32,44}\b
SOL_RE == <<WB, Cls(Base58Class, 32, 44), WB>>

\* \b[1-9A-HJ-NP-Za-km-z]{3,10}(?:\.{3}|…)[1-9A-HJ-NP-Za-km-z]{3,10}\b
SOL_TRUNCATED_RE == <<WB, Cls(Base58Class, 3, 10), Ellipsis, Cls(Base58Class, 3, 10), WB>>

\* \b0x[a-fA-F0-9]{64}\b
ETH_TX_HASH_RE == <<WB, Lit(<<"0", "x">>), Cls(HexClass, 64, 64), WB>>

\* \b0x[a-fA-F0-9]{4,12}(?:\.{3}|…)[a-fA-F0-9]{4,12}\b
ETH_TX_TRUNCATED_RE ==
    <<WB, Lit(<<"0", "x">>), Cls(HexClass, 4, 12), Ellipsis, Cls(HexClass, 4, 12), WB>>

\* \b[a-fA-F0-9]{64}\b
BTC_TX_HASH_RE == <<WB, Cls(HexClass, 64, 64), WB>>

\* \b[a-fA-F0-9]{4,12}(?:\.{3}|…)[a-fA-F0-9]{4,12}\b
BTC_TX_TRUNCATED_RE == <<WB, Cls(HexClass, 4, 12), Ellipsis, Cls(HexClass, 4, 12), WB>>

\* \b[1-9A-HJ-NP-Za-km-z]{86,88}\b
SOL_TX_SIG_RE == <<WB, Cls(Base58Class, 86, 88), WB>>

\* \b[1-9A-HJ-NP-Za-km-z]{4,12}(?:\.{3}|…)[1-9A-HJ-NP-Za-km-z]{4,12}\b
SOL_TX_TRUNCATED_RE == <<WB, Cls(Base58Class, 4, 12), Ellipsis, Cls(Base58Class, 4, 12), WB>>

---------------------------------------------------------------------------
(* The matcher: leftmost-first (backtracking priority) semantics of the    *)
(* regex crate, greedy repetitions, on the byte sequence t.                *)

IsWord(t, off) == off >= 0 /\ off < Len(t) /\ t[off + 1] \in WordBytes

\* \b at offset pos: exactly one of the bytes around pos is a word byte
IsWordBoundary(t, pos) == IsWord(t, pos - 1) # IsWord(t, pos)

HasLit(t, bs, pos) ==
    /\ pos + Len(bs) <= Len(t)
    /\ \A j \in 1..Len(bs) : t[pos + j] = bs[j]

\* number of consecutive bytes of S from offset pos, at most hi
RunLen(t, S, pos, hi) ==
    CHOOSE k \in 0..hi :
        /\ k = hi \/ pos + k >= Len(t) \/ t[pos + k + 1] \notin S
        /\ \A j \in 1..k : pos + j <= Len(t) /\ t[pos + j] \in S

Max(S) == CHOOSE x \in S : \A y \in S : y <= x

Min(S) == CHOOSE x \in S : \A y \in S : x <= y

RECURSIVE MatchFrom(_, _, _, _)

\* greedy repetition of e, lo to run times, before the rest of the pattern:
\* the longest count after which the rest matches
TryRep(t, p, k, pos, run, lo) ==
    LET ok == {n \in lo..run : MatchFrom(t, p, k + 1, pos + n) # -1}
    IN  IF ok = {} THEN -1 ELSE MatchFrom(t, p, k + 1, pos + Max(ok))

\* alternation: the first branch, in the order written, after which the rest matches
TryAlt(t, alts, rest, pos) ==
    LET ok == {a \in 1..Len(alts) : MatchFrom(t, alts[a] \o rest, 1, pos) # -1}
    IN  IF ok = {} THEN -1 ELSE MatchFrom(t, alts[Min(ok)] \o rest, 1, pos)

\* end offset of the preferred match of p[k..] at offset pos, or -1
MatchFrom(t, p, k, pos) ==
    IF k > Len(p) THEN pos
    ELSE LET e == p[k]
         IN  CASE e.kind = "wb" ->
                    IF IsWordBoundary(t, pos) THEN MatchFrom(t, p, k + 1, pos) ELSE -1
               [] e.kind = "lit" ->
                    IF HasLit(t, e.bytes, pos)
                    THEN MatchFrom(t, p, k + 1, pos + Len(e.bytes))
                    ELSE -1
               [] e.kind = "cls" ->
                    LET run == RunLen(t, e.set, pos, e.max)
                    IN  IF run < e.min THEN -1 ELSE TryRep(t, p, k, pos, run, e.min)
               [] e.kind = "alt" -> TryAlt(t, e.subs, SubSeq(p, k + 1, Len(p)), pos)
               [] e.kind = "opt" ->
                    LET r == MatchFrom(t, e.subs[1] \o SubSeq(p, k + 1, Len(p)), 1, pos)
                    IN  IF r # -1 THEN r ELSE MatchFrom(t, p, k + 1, pos)

\* Regex::find_iter: successive non-overlapping hits, left to right, each the
\* leftmost match at or after the end of the one before
RECURSIVE find_iter(_, _, _)
find_iter(t, re, pos) ==
    LET starts == {q \in pos..Len(t) : MatchFrom(t, re, 1, q) # -1}
    IN  IF starts = {} THEN <<>>
        ELSE LET s == Min(starts)
                 e == MatchFrom(t, re, 1, s)
             IN  <<[start |-> s, end |-> e]>> \o find_iter(t, re, IF e = s THEN s + 1 ELSE e)

---------------------------------------------------------------------------
(* Pattern registry: OnceLock<Regex>::get_or_init(|| Regex::new(..).unwrap()) *)

\* Regex::new accepts a pattern unless a repetition {lo,hi} has lo > hi
RECURSIVE RegexNewOk(_)
RegexNewOk(p) ==
    \A i \in 1..Len(p) :
        /\ p[i].kind = "cls" => p[i].min <= p[i].max
        /\ \A j \in 1..Len(p[i].subs) : RegexNewOk(p[i].subs[j])

\* a sol pattern with its bounds swapped, {44,32}: Regex::new rejects it
SOL_RE_swapped == <<WB, Cls(Base58Class, 44, 32), WB>>

\* the stage 2 pattern with a 6-digit minimum instead of stage 6's 4
ETH_TX_TRUNCATED_RE_min6 ==
    <<WB, Lit(<<"0", "x">>), Cls(HexClass, 6, 12), Ellipsis, Cls(HexClass, 6, 12), WB>>

\* the btc_tx_truncated pattern without its leading \b
BTC_TX_TRUNCATED_RE_unbounded == <<Cls(HexClass, 4, 12), Ellipsis, Cls(HexClass, 4, 12), WB>>

get_full_address_re == FULL_ADDRESS_RE
get_truncated_re == TRUNCATED_RE
get_ens_re == ENS_RE
get_btc_legacy_re == BTC_LEGACY_RE
get_btc_bech32_re == BTC_BECH32_RE
get_btc_truncated_legacy_re == BTC_TRUNCATED_LEGACY_RE
get_btc_truncated_bech32_re == BTC_TRUNCATED_BECH32_RE
get_sol_re == SOL_RE
get_sol_truncated_re == SOL_TRUNCATED_RE
get_eth_tx_hash_re == ETH_TX_HASH_RE
get_eth_tx_truncated_re == ETH_TX_TRUNCATED_RE
get_btc_tx_hash_re == BTC_TX_HASH_RE
get_btc_tx_truncated_re == BTC_TX_TRUNCATED_RE
get_sol_tx_sig_re == SOL_TX_SIG_RE
get_sol_tx_truncated_re == SOL_TX_TRUNCATED_RE

---------------------------------------------------------------------------
(* Helper functions *)

\* struct Match { value, index, type_ }
Match(t, h, ty) == [value |-> SubSeq(t, h.start + 1, h.end), index |-> h.start, type_ |-> ty]

\* has_overlap without its first disjunct: a candidate that starts inside a
\* match goes unnoticed
has_overlap_from_start(start, end, ms) ==
    \E i \in 1..Len(ms) : ms[i].index >= start /\ ms[i].index < end

has_overlap(start, end, ms) ==
    \E i \in 1..Len(ms) :
        LET m == ms[i]
            m_end == m.index + Len(m.value)
        IN  \/ (start >= m.index /\ start < m_end)
            \/ (m.index >= start /\ m.index < end)

\* the hits of `hits` that overlap no match of any list of `checks`, as matches
RECURSIVE KeepFree(_, _, _, _)
KeepFree(t, hits, ty, checks) ==
    IF hits = <<>> THEN <<>>
    ELSE LET h == Head(hits)
             overlaps == \E k \in 1..Len(checks) : has_overlap(h.start, h.end, checks[k])
         IN  (IF ~overlaps THEN <<Match(t, h, ty)>> ELSE <<>>)
                 \o KeepFree(t, Tail(hits), ty, checks)

scan_regex(t, re, ty, checks) == KeepFree(t, find_iter(t, re, 0), ty, checks)

DotEth == <<".", "e", "t", "h">>

\* str::ends_with
ends_with(s, suffix) ==
    /\ Len(s) >= Len(suffix)
    /\ SubSeq(s, Len(s) - Len(suffix) + 1, Len(s)) = suffix

\* is_valid_ens that rejects every name of 7 bytes or less
is_valid_ens_long_only(s) == ends_with(s, DotEth) /\ Len(s) > 7

is_valid_ens(s) ==
    IF ~ends_with(s, DotEth) THEN FALSE
    ELSE IF Len(s) <= 7 THEN Len(s) > 4
    ELSE TRUE

---------------------------------------------------------------------------
(* Detection logic *)

\* stage 1 scanning with the full-address getter
find_eth_tx_hashes_wrong_getter(t) == scan_regex(t, get_full_address_re, "eth_tx_hash", <<>>)

find_eth_tx_hashes(t) == scan_regex(t, get_eth_tx_hash_re, "eth_tx_hash", <<>>)

find_eth_tx_truncated(t, existing) ==
    scan_regex(t, get_eth_tx_truncated_re, "eth_tx_truncated", <<existing>>)

find_btc_tx_hashes(t, existing) ==
    LET full == scan_regex(t, get_btc_tx_hash_re, "btc_tx_hash", <<existing>>)
        truncated == scan_regex(t, get_btc_tx_truncated_re, "btc_tx_truncated", <<existing, full>>)
    IN  full \o truncated

find_sol_tx_signatures(t, existing) ==
    LET full == scan_regex(t, get_sol_tx_sig_re, "sol_tx_sig", <<existing>>)
        truncated == scan_regex(t, get_sol_tx_truncated_re, "sol_tx_truncated", <<existing, full>>)
    IN  full \o truncated

find_full_addresses(t, existing) ==
    scan_regex(t, get_full_address_re, "fullAddress", <<existing>>)

find_truncated_addresses(t, existing) ==
    scan_regex(t, get_truncated_re, "truncated", <<existing>>)

\* find_btc_addresses whose truncated scans leave out &matches, the family's
\* own earlier matches
find_btc_addresses_existing_only(t, existing) ==
    LET legacy == scan_regex(t, get_btc_legacy_re, "btc_legacy", <<existing>>)
        bech32 == scan_regex(t, get_btc_bech32_re, "btc_bech32", <<existing, legacy>>)
        trunc_legacy ==
            scan_regex(t, get_btc_truncated_legacy_re, "btc_truncated_legacy", <<existing>>)
        trunc_bech32 ==
            scan_regex(t, get_btc_truncated_bech32_re, "btc_truncated_bech32", <<existing>>)
    IN  legacy \o bech32 \o trunc_legacy \o trunc_bech32

find_btc_addresses(t, existing) ==
    LET legacy == scan_regex(t, get_btc_legacy_re, "btc_legacy", <<existing>>)
        m1 == legacy
        bech32 == scan_regex(t, get_btc_bech32_re, "btc_bech32", <<existing, m1>>)
        m2 == m1 \o bech32
        trunc_legacy ==
            scan_regex(t, get_btc_truncated_legacy_re, "btc_truncated_legacy", <<existing, m2>>)
        m3 == m2 \o trunc_legacy
        trunc_bech32 ==
            scan_regex(t, get_btc_truncated_bech32_re, "btc_truncated_bech32", <<existing, m3>>)
    IN  m3 \o trunc_bech32

find_sol_addresses(t, existing) ==
    LET full == scan_regex(t, get_sol_re, "sol", <<existing>>)
        truncated == scan_regex(t, get_sol_truncated_re, "sol_truncated", <<existing, full>>)
    IN  full \o truncated

RECURSIVE EnsLoop(_, _, _)
EnsLoop(t, hits, existing) ==
    IF hits = <<>> THEN <<>>
    ELSE LET h == Head(hits)
             val == SubSeq(t, h.start + 1, h.end)
         IN  (IF is_valid_ens(val) /\ ~has_overlap(h.start, h.end, existing)
              THEN <<Match(t, h, "ens")>>
              ELSE <<>>) \o EnsLoop(t, Tail(hits), existing)

find_ens_names(t, existing) == EnsLoop(t, find_iter(t, get_ens_re, 0), existing)

\* slice::sort_by_key(|m| m.index): a stable sort
RECURSIVE InsertByIndex(_, _)
InsertByIndex(sorted, m) ==
    IF sorted = <<>> THEN <<m>>
    ELSE IF sorted[Len(sorted)].index <= m.index THEN Append(sorted, m)
    ELSE Append(InsertByIndex(SubSeq(sorted, 1, Len(sorted) - 1), m), sorted[Len(sorted)])

\* no sort at all
sort_by_key_skipped(ms) == ms

RECURSIVE sort_by_key(_)
sort_by_key(ms) ==
    IF ms = <<>> THEN <<>>
    ELSE InsertByIndex(sort_by_key(SubSeq(ms, 1, Len(ms) - 1)), ms[Len(ms)])

---------------------------------------------------------------------------
(* Input texts *)

\* a text holds at most MaxToks tokens
MaxToks == 2

Rep(c, n) == [i \in 1..n |-> c]

Dots == <<".", ".", ".">>

\* Each family is a set of tokens and the separators that may stand between
\* two of them.  The token lengths sit on the patterns' own lengths.
HexFamily ==
    [toks |-> { <<"0", "x">> \o Rep("a", 64),      \* 0x + 64 hex
                <<"0", "x">> \o Rep("a", 40),      \* 0x + 40 hex
                <<"0", "x">> \o Rep("a", 4),       \* 0x + 4 hex
                Rep("a", 4),                       \* 4 hex, also base58
                Rep("a", 64) },                    \* 64 hex
     seps |-> { <<" ">>, Dots, EllipsisBytes }]

Base58Family ==
    [toks |-> { <<"1">> \o Rep("a", 33),           \* [13] + 33 base58: 34 base58
                <<"1", "x", "x">>,                 \* [13] + 2 base58: 3 base58
                Rep("x", 4),                       \* 4 base58, not hex
                Rep("x", 86),                      \* 86 base58
                Rep("x", 32) },                    \* 32 base58
     seps |-> { <<" ">>, Dots, EllipsisBytes }]

NameFamily ==
    [toks |-> { <<"b", "c", "1">> \o Rep("a", 39), \* bc1 + 39
                <<"b", "c", "1", "a", "a">>,       \* bc1 + 2
                Rep("x", 32),                      \* 32 base58, also bech32 bytes
                <<"e", "t", "h">>,
                <<"E", "T", "H">> },
     seps |-> { <<" ">>, Dots, <<".">> }]

Families == {HexFamily, Base58Family, NameFamily}

RECURSIVE TextsOf(_, _)
TextsOf(f, n) ==
    IF n = 0 THEN {<<>>}
    ELSE IF n = 1 THEN f.toks
    ELSE {t \o s \o k : t \in TextsOf(f, n - 1), s \in f.seps, k \in f.toks}

Texts == UNION {TextsOf(f, n) : f \in Families, n \in 0..MaxToks}

---------------------------------------------------------------------------
(* find_matches as a state machine: one action per statement group *)

\* what one scan accepted
ScanRecord(ty, accepted) == [type_ |-> ty, accepted |-> accepted]

OfType(ms, ty) == SelectSeq(ms, LAMBDA m : m.type_ = ty)

\* the state of the parts of the program a specification leaves alone
Idle == <<>>

Init ==
    /\ text \in Texts
    /\ pc = "eth_tx_hashes"
    /\ matches = <<>>
    /\ hist = <<>>
    /\ cells = Idle
    /\ callers = Idle
    /\ hoCall = Idle
    /\ ensCall = Idle

\* a stage whose patterns compile extends `matches`; Regex::new(..).unwrap()
\* panics otherwise
Stage(here, next, res, found, recs) ==
    /\ pc = here
    /\ IF \A i \in 1..Len(res) : RegexNewOk(res[i])
       THEN /\ matches' = matches \o found
            /\ hist' = hist \o recs
            /\ pc' = next
       ELSE /\ pc' = "panicked"
            /\ UNCHANGED <<matches, hist>>
    /\ UNCHANGED <<text, cells, callers, hoCall, ensCall>>

EthTxHashes ==
    LET found == find_eth_tx_hashes(text)
    IN  Stage("eth_tx_hashes", "eth_tx_truncated", <<get_eth_tx_hash_re>>, found,
              <<ScanRecord("eth_tx_hash", found)>>)

EthTxTruncated ==
    LET found == find_eth_tx_truncated(text, matches)
    IN  Stage("eth_tx_truncated", "btc_tx", <<get_eth_tx_truncated_re>>, found,
              <<ScanRecord("eth_tx_truncated", found)>>)

BtcTx ==
    LET found == find_btc_tx_hashes(text, matches)
    IN  Stage("btc_tx", "sol_tx", <<get_btc_tx_hash_re, get_btc_tx_truncated_re>>, found,
              <<ScanRecord("btc_tx_hash", OfType(found, "btc_tx_hash")),
                ScanRecord("btc_tx_truncated", OfType(found, "btc_tx_truncated"))>>)

SolTx ==
    LET found == find_sol_tx_signatures(text, matches)
    IN  Stage("sol_tx", "full_addresses", <<get_sol_tx_sig_re, get_sol_tx_truncated_re>>, found,
              <<ScanRecord("sol_tx_sig", OfType(found, "sol_tx_sig")),
                ScanRecord("sol_tx_truncated", OfType(found, "sol_tx_truncated"))>>)

FullAddresses ==
    LET found == find_full_addresses(text, matches)
    IN  Stage("full_addresses", "truncated", <<get_full_address_re>>, found,
              <<ScanRecord("fullAddress", found)>>)

TruncatedAddresses ==
    LET found == find_truncated_addresses(text, matches)
    IN  Stage("truncated", "btc", <<get_truncated_re>>, found,
              <<ScanRecord("truncated", found)>>)

BtcAddresses ==
    LET found == find_btc_addresses(text, matches)
    IN  Stage("btc", "sol",
              <<get_btc_legacy_re, get_btc_bech32_re, get_btc_truncated_legacy_re,
                get_btc_truncated_bech32_re>>,
              found,
              <<ScanRecord("btc_legacy", OfType(found, "btc_legacy")),
                ScanRecord("btc_bech32", OfType(found, "btc_bech32")),
                ScanRecord("btc_truncated_legacy", OfType(found, "btc_truncated_legacy")),
                ScanRecord("btc_truncated_bech32", OfType(found, "btc_truncated_bech32"))>>)

SolAddresses ==
    LET found == find_sol_addresses(text, matches)
    IN  Stage("sol", "ens", <<get_sol_re, get_sol_truncated_re>>, found,
              <<ScanRecord("sol", OfType(found, "sol")),
                ScanRecord("sol_truncated", OfType(found, "sol_truncated"))>>)

EnsNames ==
    LET found == find_ens_names(text, matches)
    IN  Stage("ens", "sort", <<get_ens_re>>, found, <<ScanRecord("ens", found)>>)

SortMatches ==
    /\ pc = "sort"
    /\ matches' = sort_by_key(matches)
    /\ pc' = "done"
    /\ UNCHANGED <<text, hist, cells, callers, hoCall, ensCall>>

Next ==
    \/ EthTxHashes
    \/ EthTxTruncated
    \/ BtcTx
    \/ SolTx
    \/ FullAddresses
    \/ TruncatedAddresses
    \/ BtcAddresses
    \/ SolAddresses
    \/ EnsNames
    \/ SortMatches

Spec == Init /\ [][Next]_vars

---------------------------------------------------------------------------
(* Properties of find_matches *)

\* the scans of find_matches in the order they run: type tag and pattern
Scans ==
    << [type_ |-> "eth_tx_hash", re |-> ETH_TX_HASH_RE],
       [type_ |-> "eth_tx_truncated", re |-> ETH_TX_TRUNCATED_RE],
       [type_ |-> "btc_tx_hash", re |-> BTC_TX_HASH_RE],
       [type_ |-> "btc_tx_truncated", re |-> BTC_TX_TRUNCATED_RE],
       [type_ |-> "sol_tx_sig", re |-> SOL_TX_SIG_RE],
       [type_ |-> "sol_tx_truncated", re |-> SOL_TX_TRUNCATED_RE],
       [type_ |-> "fullAddress", re |-> FULL_ADDRESS_RE],
       [type_ |-> "truncated", re |-> TRUNCATED_RE],
       [type_ |-> "btc_legacy", re |-> BTC_LEGACY_RE],
       [type_ |-> "btc_bech32", re |-> BTC_BECH32_RE],
       [type_ |-> "btc_truncated_legacy", re |-> BTC_TRUNCATED_LEGACY_RE],
       [type_ |-> "btc_truncated_bech32", re |-> BTC_TRUNCATED_BECH32_RE],
       [type_ |-> "sol", re |-> SOL_RE],
       [type_ |-> "sol_truncated", re |-> SOL_TRUNCATED_RE],
       [type_ |-> "ens", re |-> ENS_RE] >>

Rank(ty) == CHOOSE k \in 1..Len(Scans) : Scans[k].type_ = ty

TruncatedTypes ==
    {"eth_tx_truncated", "btc_tx_truncated", "sol_tx_truncated", "truncated",
     "btc_truncated_legacy", "btc_truncated_bech32", "sol_truncated"}

Range(seq) == {seq[i] : i \in 1..Len(seq)}

\* the byte offsets a range or a match covers
Span(start, end) == start..(end - 1)

Covered(m) == Span(m.index, m.index + Len(m.value))

Returned == pc = "done"

\* the hits of the k-th scan's matcher in the text (for ENS, those that pass
\* is_valid_ens)
HitsOf(k) ==
    LET hs == find_iter(text, Scans[k].re, 0)
    IN  IF Scans[k].type_ = "ens"
        THEN SelectSeq(hs, LAMBDA h : is_valid_ens(SubSeq(text, h.start + 1, h.end)))
        ELSE hs

\* some matcher's hit is not in the output
SomeHitRejected ==
    \E k \in 1..Len(Scans) :
        \E h \in Range(HitsOf(k)) : Match(text, h, Scans[k].type_) \notin Range(matches)

RECURSIVE Flatten(_)
Flatten(recs) ==
    IF recs = <<>> THEN <<>> ELSE Head(recs).accepted \o Flatten(Tail(recs))

\* C1: the returned matches cover pairwise disjoint byte ranges
C1_Disjoint ==
    Returned =>
        \A i, j \in 1..Len(matches) :
            i # j => Covered(matches[i]) \cap Covered(matches[j]) = {}

\* a returned sequence of two or more matches, with a hit rejected for overlap
C1_Witness == Returned /\ Len(matches) >= 2 /\ SomeHitRejected

\* C2: the returned matches are in strictly ascending order of index
C2_Sorted ==
    Returned =>
        \A i \in 1..(Len(matches) - 1) : matches[i].index < matches[i + 1].index

\* the stages accepted the matches in another order than the returned one
C2_Witness == Returned /\ Len(matches) >= 2 /\ Flatten(hist) # matches

\* a word-bounded 0x followed by exactly n hex digits starts at offset p
HexTokenAt(p, n) ==
    /\ p + 2 + n <= Len(text)
    /\ text[p + 1] = "0"
    /\ text[p + 2] = "x"
    /\ \A j \in 3..(n + 2) : text[p + j] \in HexClass
    /\ ~IsWord(text, p - 1)
    /\ ~IsWord(text, p + 2 + n)

\* the hit at p of n + 2 bytes is returned exactly once, with type ty, and
\* every other returned match is disjoint from it
ReturnedAs(p, n, ty) ==
    /\ Cardinality({i \in 1..Len(matches) :
                        /\ matches[i].index = p
                        /\ matches[i].value = SubSeq(text, p + 1, p + 2 + n)
                        /\ matches[i].type_ = ty}) = 1
    /\ \A i \in 1..Len(matches) :
            Covered(matches[i]) \cap Span(p, p + 2 + n) # {}
                => matches[i].index = p /\ matches[i].type_ = ty

\* C3: every 0x + 64 hex token is returned as one eth_tx_hash match over the
\* whole token, and no other match overlaps it
C3_EthTxHash ==
    Returned => \A p \in 0..Len(text) : HexTokenAt(p, 64) => ReturnedAs(p, 64, "eth_tx_hash")

\* a transaction hash next to more text
C3_Witness == Returned /\ Len(text) > 66 /\ \E p \in 0..Len(text) : HexTokenAt(p, 64)

\* C4: every 0x + 40 hex token is returned as one fullAddress match, and no
\* match of a truncated form overlaps it
C4_FullBeforeTruncated ==
    Returned =>
        \A p \in 0..Len(text) :
            HexTokenAt(p, 40) =>
                /\ ReturnedAs(p, 40, "fullAddress")
                /\ \A i \in 1..Len(matches) :
                        matches[i].type_ \in TruncatedTypes
                            => Covered(matches[i]) \cap Span(p, p + 42) = {}

\* a full address directly followed by an ellipsis and hex digits, the tail
\* of a truncated form
C4_Witness ==
    /\ Returned
    /\ \E p \in 0..Len(text) :
            /\ HexTokenAt(p, 40)
            /\ HasLit(text, Dots, p + 42) \/ HasLit(text, EllipsisBytes, p + 42)
            /\ \E q \in (p + 43)..Len(text) : RunLen(text, HexClass, q, 4) = 4

\* no matcher has a hit anywhere in the text
NoMatcherHits ==
    \A k \in 1..Len(Scans) : \A q \in 0..Len(text) : MatchFrom(text, Scans[k].re, 1, q) = -1

\* the statements of find_matches: at each of them one action of Next is
\* enabled, whatever the text and the matches so far
Statements ==
    {"eth_tx_hashes", "eth_tx_truncated", "btc_tx", "sol_tx", "full_addresses",
     "truncated", "btc", "sol", "ens", "sort"}

\* C5: a call never panics and is never stuck before it returns, and a text
\* without hits returns the empty sequence
C5_Total ==
    /\ pc # "panicked"
    /\ Returned \/ pc \in Statements
    /\ Returned /\ NoMatcherHits => matches = <<>>

\* a call on a non-empty text without hits has returned
C5_Witness == Returned /\ text # <<>> /\ NoMatcherHits /\ matches = <<>>

\* C8: a hit is returned iff it overlaps no returned match of an earlier
\* scan, and what a scan accepted stays in `matches` unchanged
C8_GreedyFinal ==
    /\ \A r \in 1..Len(hist) : Range(hist[r].accepted) \subseteq Range(matches)
    /\ Returned =>
          \A k \in 1..Len(Scans) :
              \A h \in Range(HitsOf(k)) :
                  Match(text, h, Scans[k].type_) \in Range(matches)
                      <=> ~\E m \in Range(matches) :
                              /\ Rank(m.type_) < k
                              /\ Covered(m) \cap Span(h.start, h.end) # {}

\* one hit was returned and another was rejected
C8_Witness == Returned /\ matches # <<>> /\ SomeHitRejected

\* C10: no returned match has type "truncated": every hit of stage 6 is
\* returned as eth_tx_truncated or overlaps a match accepted before stage 2
C10_NoTruncatedType ==
    Returned =>
        /\ \A i \in 1..Len(matches) : matches[i].type_ # "truncated"
        /\ \A h \in Range(find_iter(text, TRUNCATED_RE, 0)) :
              \/ Match(text, h, "eth_tx_truncated") \in Range(matches)
              \/ \E m \in Range(matches) :
                    /\ Rank(m.type_) < Rank("eth_tx_truncated")
                    /\ Covered(m) \cap Span(h.start, h.end) # {}

\* stage 6 had a hit
C10_Witness == Returned /\ find_iter(text, TRUNCATED_RE, 0) # <<>>

---------------------------------------------------------------------------
(* The pattern cache under concurrent first calls.  Each getter is         *)
(* CELL.get_or_init(|| Regex::new(..).unwrap()): a caller that finds the   *)
(* cell complete reads it; otherwise it enters the cell's Once, where the  *)
(* first caller runs the closure and writes the slot while the others      *)
(* wait for it to complete.                                                *)

NumCallers == 2

Callers == 1..NumCallers

\* the cells in the order find_matches calls their getters
CellOrder ==
    <<"ETH_TX_HASH_RE", "ETH_TX_TRUNCATED_RE", "BTC_TX_HASH_RE", "BTC_TX_TRUNCATED_RE",
      "SOL_TX_SIG_RE", "SOL_TX_TRUNCATED_RE", "FULL_ADDRESS_RE", "TRUNCATED_RE",
      "BTC_LEGACY_RE", "BTC_BECH32_RE", "BTC_TRUNCATED_LEGACY_RE", "BTC_TRUNCATED_BECH32_RE",
      "SOL_RE", "SOL_TRUNCATED_RE", "ENS_RE">>

CellNames == Range(CellOrder)

\* the slot of a cell nobody has written: MaybeUninit<Regex>
Uninit == [pattern |-> "uninit", instance |-> 0]

\* static X: OnceLock<Regex> = OnceLock::new()
OnceLockNew == [once |-> "incomplete", slot |-> Uninit, writes |-> 0]

\* what the getters leave alone
ScanState == <<text, pc, matches, hist, hoCall, ensCall>>

\* the cell a caller is at
CellOf(c) == CellOrder[callers[c].at]

AtGetter(c, step) == callers[c].at <= Len(CellOrder) /\ callers[c].step = step

CacheInit ==
    /\ cells = [n \in CellNames |-> OnceLockNew]
    /\ callers = [c \in Callers |-> [at |-> 1, step |-> "get", got |-> <<>>]]
    /\ text = <<>>
    /\ pc = "idle"
    /\ matches = <<>>
    /\ hist = <<>>
    /\ hoCall = Idle
    /\ ensCall = Idle

\* get_or_init, fast path: OnceLock::get
OnceGet(c) ==
    /\ AtGetter(c, "get")
    /\ callers' = [callers EXCEPT ![c].step =
                      IF cells[CellOf(c)].once = "complete" THEN "read" ELSE "call_once"]
    /\ UNCHANGED <<cells, ScanState>>

\* a check-then-initialise cell: whoever finds it not complete initialises it
MayRunClosure_unguarded(once) == once # "complete"

\* whether a caller entering the Once in state `once` is the one to run the closure
MayRunClosure(once) == once = "incomplete"

\* Once::call_once_force: take the cell if nobody has, wait while somebody is
\* initialising it, pass if it is complete
OnceCall(c) ==
    /\ AtGetter(c, "call_once")
    /\ IF MayRunClosure(cells[CellOf(c)].once)
       THEN /\ cells' = [cells EXCEPT ![CellOf(c)].once = "running"]
            /\ callers' = [callers EXCEPT ![c].step = "init"]
       ELSE /\ cells[CellOf(c)].once = "complete"
            /\ callers' = [callers EXCEPT ![c].step = "read"]
            /\ UNCHANGED cells
    /\ UNCHANGED ScanState

\* the closure: Regex::new(..).unwrap(), a new Regex each time it runs,
\* written to the slot
OnceInit(c) ==
    /\ AtGetter(c, "init")
    /\ cells' = [cells EXCEPT ![CellOf(c)].slot =
                                  [pattern |-> CellOf(c), instance |-> cells[CellOf(c)].writes + 1],
                              ![CellOf(c)].writes = @ + 1]
    /\ callers' = [callers EXCEPT ![c].step = "finish"]
    /\ UNCHANGED ScanState

\* the Once completes and wakes the waiters
OnceFinish(c) ==
    /\ AtGetter(c, "finish")
    /\ cells' = [cells EXCEPT ![CellOf(c)].once = "complete"]
    /\ callers' = [callers EXCEPT ![c].step = "read"]
    /\ UNCHANGED ScanState

\* get_or_init returns the &'static Regex, which the caller scans with
OnceRead(c) ==
    /\ AtGetter(c, "read")
    /\ callers' = [callers EXCEPT ![c].got = Append(@, cells[CellOf(c)].slot),
                                  ![c].at = @ + 1,
                                  ![c].step = "get"]
    /\ UNCHANGED <<cells, ScanState>>

CacheNext ==
    \E c \in Callers :
        \/ OnceGet(c)
        \/ OnceCall(c)
        \/ OnceInit(c)
        \/ OnceFinish(c)
        \/ OnceRead(c)

CacheSpec == CacheInit /\ [][CacheNext]_vars

\* C6: each cell is written at most once, a caller never gets an unwritten
\* slot, what a caller got is still what the cell holds, and all callers got
\* the same matcher for a pattern
C6_CompileOnce ==
    /\ \A n \in CellNames : cells[n].writes <= 1
    /\ \A c \in Callers :
          \A i \in 1..Len(callers[c].got) :
              /\ callers[c].got[i] # Uninit
              /\ callers[c].got[i] = cells[CellOrder[i]].slot
              /\ callers[c].got[i].pattern = CellOrder[i]
    /\ \A c, d \in Callers :
          \A i \in 1..Len(callers[c].got) :
              i <= Len(callers[d].got) => callers[c].got[i] = callers[d].got[i]

\* a caller waits in the Once of a cell while another caller, who has
\* written the slot, has not completed it yet
C6_Witness ==
    \E c, d \in Callers :
        /\ c # d
        /\ callers[c].at = callers[d].at
        /\ callers[c].step = "call_once"
        /\ callers[d].step = "finish"

---------------------------------------------------------------------------
(* has_overlap on its own *)

MaxOffset == 3

MaxListLen == 2

MaxValueLen == 2

\* matches at small offsets with values of 0..MaxValueLen bytes
SmallMatches ==
    {[value |-> Rep("a", n), index |-> i, type_ |-> "sol"] : n \in 0..MaxValueLen, i \in 0..MaxOffset}

RECURSIVE ListsOf(_, _)
ListsOf(S, n) ==
    IF n = 0 THEN {<<>>}
    ELSE LET shorter == ListsOf(S, n - 1)
         IN  shorter \cup {Append(l, m) : l \in {x \in shorter : Len(x) = n - 1}, m \in S}

OverlapInit ==
    /\ \E start \in 0..MaxOffset, end \in 0..MaxOffset, list \in ListsOf(SmallMatches, MaxListLen) :
          /\ start <= end
          /\ hoCall = [phase |-> "called", start |-> start, end |-> end, list |-> list,
                       result |-> FALSE]
    /\ text = <<>>
    /\ pc = "idle"
    /\ matches = <<>>
    /\ hist = <<>>
    /\ cells = Idle
    /\ callers = Idle
    /\ ensCall = Idle

HasOverlapReturns ==
    /\ hoCall.phase = "called"
    /\ hoCall' = [hoCall EXCEPT !.phase = "returned",
                                !.result = has_overlap(hoCall.start, hoCall.end, hoCall.list)]
    /\ UNCHANGED <<text, pc, matches, hist, cells, callers, ensCall>>

OverlapNext == HasOverlapReturns

OverlapSpec == OverlapInit /\ [][OverlapNext]_vars

\* C7: has_overlap(start, end, list) holds iff some m of the list has
\* start < m.index + len(m.value) and m.index < end
C7_OverlapIff ==
    hoCall.phase = "returned" =>
        (hoCall.result <=>
            \E i \in 1..Len(hoCall.list) :
                /\ hoCall.start < hoCall.list[i].index + Len(hoCall.list[i].value)
                /\ hoCall.list[i].index < hoCall.end)

---------------------------------------------------------------------------
(* is_valid_ens and find_ens_names on their own *)

MaxLabel == 4

MaxSuffix == 4

SuffixBytes == {".", "e", "t", "h", "E"}

RECURSIVE SeqsUpTo(_, _)
SeqsUpTo(S, n) ==
    IF n = 0 THEN {<<>>}
    ELSE LET shorter == SeqsUpTo(S, n - 1)
         IN  shorter \cup {Append(l, b) : l \in {x \in shorter : Len(x) = n - 1}, b \in S}

\* a label of 0..MaxLabel bytes followed by up to MaxSuffix bytes of ".ethE"
EnsStrings == {Rep("a", n) \o suf : n \in 0..MaxLabel, suf \in SeqsUpTo(SuffixBytes, MaxSuffix)}

EnsInit ==
    /\ text \in EnsStrings
    /\ ensCall = [phase |-> "called", valid |-> FALSE, found |-> <<>>]
    /\ pc = "idle"
    /\ matches = <<>>
    /\ hist = <<>>
    /\ cells = Idle
    /\ callers = Idle
    /\ hoCall = Idle

EnsReturns ==
    /\ ensCall.phase = "called"
    /\ ensCall' = [phase |-> "returned",
                   valid |-> is_valid_ens(text),
                   found |-> find_ens_names(text, <<>>)]
    /\ UNCHANGED <<text, pc, matches, hist, cells, callers, hoCall>>

EnsNext == EnsReturns

EnsSpec == EnsInit /\ [][EnsNext]_vars

\* s is longer than 4 bytes and its last four bytes are . e t h
LongerDotEth(s) ==
    /\ Len(s) > 4
    /\ s[Len(s) - 3] = "."
    /\ s[Len(s) - 2] = "e"
    /\ s[Len(s) - 1] = "t"
    /\ s[Len(s)] = "h"

\* C9: is_valid_ens(s) holds exactly when s ends in ".eth" and is longer than
\* 4 bytes, and every match find_ens_names emits has type ens and such a value
C9_ValidEns ==
    ensCall.phase = "returned" =>
        /\ ensCall.valid <=> LongerDotEth(text)
        /\ \A i \in 1..Len(ensCall.found) :
              /\ ensCall.found[i].type_ = "ens"
              /\ LongerDotEth(ensCall.found[i].value)

\* a name of 5 to 7 bytes was accepted and emitted
C9_Witness ==
    /\ ensCall.phase = "returned"
    /\ ensCall.valid
    /\ Len(text) <= 7
    /\ ensCall.found # <<>>

=============================================================================
